---- MODULE Spec2Model ----
(***************************************************************************)
(* State-machine model of the VideoPlayer class of script.js: the          *)
(* thumbnail -> ad -> main sequencer, the ad overlay (timer, countdown,    *)
(* skip control, loading indicator), the main video's controls (progress,  *)
(* seeking, volume, settings menu, auto-hide of the controls) and the      *)
(* commands the player issues to its two media elements.  The media        *)
(* elements themselves are the browser's: they are modelled as the HTML    *)
(* media element behaves (play, pause and seek change the element at once  *)
(* and queue notifications that are dispatched later, in order).           *)
(*                                                                         *)
(* Time is counted in ticks, TicksPerSec ticks to the second, so that      *)
(* Math.floor of a position is not the identity.                           *)
(***************************************************************************)
EXTENDS Integers, Sequences, FiniteSets, TLC

\* ------------------------------------------------------------------ bounds
TicksPerSec == 2
AdDurSecs == 5
MainDurTicks == 2
MaxSkipAfterInput == 2
MaxPending == 2
MaxStepInput == 1
MaxDelayInput == 1

\* The ad lasts AdDurSecs seconds and one tick (a fractional duration).
AdDurTicks == AdDurSecs * TicksPerSec + 1

\* -------------------------------------------------------- program constants
DefaultSkipAfter == 5
DefaultSkipBackwardSeconds == 10
DefaultSkipForwardSeconds == 10
DefaultAutoHideControlsDelay == 3000

VARIABLES
    input,              \* the configuration object passed to the constructor
    thrown,             \* the error new VideoPlayer(config) threw, if any
    observeMain,        \* the specification follows the main element's
                        \* notifications (fixed by Init)
    hidden,             \* element id -> its classList contains 'hidden'
    skipButtonClasses,  \* the utility classes of #skipButton the code toggles
    skipTimerText,      \* textContent of #skipTimer
    adTimerText,        \* textContent of #adTimer: <<>> is the initial "--"
    adDuration,         \* this.adDuration
    adPaused,           \* adVideo.paused
    adTime,             \* adVideo.currentTime, in ticks
    adReady,            \* adVideo readiness: "nothing", "metadata", "enough"
    adQueue,            \* notifications of adVideo queued for dispatch
    mainPaused,         \* mainVideo.paused
    mainTime,           \* mainVideo.currentTime, in ticks
    mainReady,          \* mainVideo readiness: "nothing", "metadata", "enough"
    mainQueue,          \* notifications of mainVideo queued for dispatch
    volume,             \* mainVideo.volume, in thousandths
    volumeSliderValue,  \* volumeSlider.value, a whole number in 0..100
    lastCurrentTime,    \* currentTime of the latest ad timeupdate handler run
    controlsOpacity,    \* style.opacity of the six control elements: 0 or 1
    hideTimers,         \* pending hide timeouts: ticks left, oldest first
    handleLive,         \* this.hideControlsTimeout names the newest of them
    isUserInteracting,  \* this.isUserInteracting
    isSettingsOpen,     \* this.isSettingsOpen
    pointer,            \* where the pointer is: "outside", "video",
                        \* "bottomControls" or "settingsContainer"
    progressBarWidth,   \* progressBar.style.width, a percentage num/den
    progressHandleLeft, \* progressHandle.style.left, a percentage num/den
    currentTimeText,    \* textContent of #currentTime: <<minutes, seconds>>
    durationText,       \* textContent of #duration: <<minutes, seconds>>
    destroyed,          \* destroy() has been called
    peer,               \* a second player on the page: what of it the
                        \* document's listeners read and write
    lastKey,            \* e.key of the last keydown the document dispatched
    playbackRate,       \* mainVideo.playbackRate, in hundredths
    currentQuality,     \* data-quality of the highlighted quality option
    lastCall            \* the latest call of a method that returns a value:
                        \* the method, its argument and what it returned

vars == <<input, thrown, observeMain, hidden, skipButtonClasses, skipTimerText,
          adTimerText, adDuration, adPaused, adTime, adReady, adQueue,
          mainPaused, mainTime, mainReady, mainQueue, volume,
          volumeSliderValue, lastCurrentTime, controlsOpacity, hideTimers,
          handleLive, isUserInteracting, isSettingsOpen, pointer,
          progressBarWidth, progressHandleLeft, currentTimeText,
          durationText, destroyed, peer, lastKey, playbackRate,
          currentQuality, lastCall>>

\* No key has been pressed yet.
NoKey == "none"

\* What the settings' options alone write.
selection == <<playbackRate, currentQuality>>

\* No method that returns a value has been called yet.
NoCall == [method |-> "none", arg |-> 0, result |-> <<>>]

setup == <<input, thrown, observeMain, selection, lastCall>>
aside == <<setup, peer, lastKey>>
adEngineVars == <<adPaused, adTime, adReady>>
adUiVars == <<skipButtonClasses, skipTimerText, adTimerText, adDuration,
              lastCurrentTime>>
mainEngineVars == <<mainPaused, mainTime, mainReady, mainQueue>>
volumeVars == <<volume, volumeSliderValue>>
controlVars == <<controlsOpacity, hideTimers, handleLive, isUserInteracting,
                 isSettingsOpen>>
mirrorVars == <<progressBarWidth, progressHandleLeft, currentTimeText,
                durationText>>
mainUiVars == <<volumeVars, controlVars, mirrorVars, pointer, destroyed>>
mainVars == <<mainEngineVars, mainUiVars>>
adVars == <<adEngineVars, adUiVars, adQueue>>

\* ---------------------------------------------------------- configuration
\* A numeric configuration field: not supplied, or supplied with a value.
NotSupplied == [present |-> FALSE, val |-> 0]

Supplied(v) == [present |-> TRUE, val |-> v]

SkipAfterInputs == {NotSupplied} \cup {Supplied(v) : v \in 0..MaxSkipAfterInput}

\* A seek step is supplied in ticks (v ticks are v / TicksPerSec seconds),
\* the auto-hide delay in ticks (v ticks are 1000 * v / TicksPerSec ms).
StepInputs == {NotSupplied} \cup {Supplied(v) : v \in 0..MaxStepInput}

DelayInputs == {NotSupplied} \cup {Supplied(v) : v \in 0..MaxDelayInput}

\* The ids of the page's elements; NoId is a property left out (or '').
PageIds == {"wrapper"}

NoId == ""

Inputs == [wrapperId : {NoId, "missing"} \cup PageIds,
           containerId : {NoId} \cup PageIds,
           adUrl : BOOLEAN, skipAfter : SkipAfterInputs,
           skipBackwardSeconds : StepInputs, skipForwardSeconds : StepInputs,
           autoHideControlsDelay : DelayInputs]

\* The configurations that name an element of the page as wrapperId.
MountedInputs ==
    {i \in Inputs : i.wrapperId \in PageIds /\ i.containerId = NoId}

\* The configurations that differ in what the sequencer reads.
SequencerInputs ==
    {i \in MountedInputs :
                    /\ i.skipBackwardSeconds = NotSupplied
                    /\ i.skipForwardSeconds = NotSupplied
                    /\ i.autoHideControlsDelay = NotSupplied}

\* JavaScript's `x || d` on a number field: undefined and 0 are falsy.
OrDefault(x, d) == IF x.present /\ x.val # 0 THEN x.val ELSE d

\* this.config.adVideo.skipAfter
ConfigSkipAfter == OrDefault(input.skipAfter, DefaultSkipAfter)

\* this.config.adVideo.url is a non-empty string
ConfigAdUrl == input.adUrl

\* this.config.skipBackwardSeconds and skipForwardSeconds, in ticks
ConfigSkipBackward ==
    OrDefault(input.skipBackwardSeconds,
              DefaultSkipBackwardSeconds * TicksPerSec)

ConfigSkipForward ==
    OrDefault(input.skipForwardSeconds,
              DefaultSkipForwardSeconds * TicksPerSec)

\* this.config.autoHideControlsDelay, in ticks
ConfigAutoHideControlsDelay ==
    OrDefault(input.autoHideControlsDelay,
              (DefaultAutoHideControlsDelay * TicksPerSec) \div 1000)

\* --------------------------------------------------------------- elements
Elements == {"thumbnailVideo", "adVideo", "mainVideo", "mainVideoControls",
             "adOverlay", "playOverlay", "skipCountdown", "adLoadingSpinner",
             "centerPlayIcon", "centerPauseIcon", "volumeIcon", "muteIcon",
             "settingsMenu", "speedSubmenu", "qualitySubmenu",
             "loadingSpinner"}

\* The class attributes the create* methods give the elements.
InitialHidden ==
    [e \in Elements |-> e \in {"adVideo", "mainVideo", "mainVideoControls",
                               "adLoadingSpinner", "centerPauseIcon",
                               "muteIcon", "settingsMenu", "speedSubmenu",
                               "qualitySubmenu", "loadingSpinner"}]

InitialSkipButtonClasses == {"opacity-0", "pointer-events-none"}

\* Math.floor of a position given in ticks, in seconds.
Floor(t) == t \div TicksPerSec

\* ----------------------------------------------------------- media engine
\* Appending notifications to a queue.  Handlers read the element's current
\* state, so a notification equal to the one queued last adds nothing.
RECURSIVE Enq(_, _)
Enq(q, evs) ==
    IF evs = <<>> THEN q
    ELSE IF q # <<>> /\ q[Len(q)] = Head(evs) THEN Enq(q, Tail(evs))
    ELSE Enq(Append(q, Head(evs)), Tail(evs))

\* play(): a paused element starts and queues play, then playing or waiting.
PlayEvents(paused, ready) ==
    IF ~paused THEN <<>>
    ELSE IF ready = "enough" THEN <<"play", "playing">>
    ELSE <<"play", "waiting">>

\* pause(): a playing element queues timeupdate (and pause, which the ad
\* element has no listener for).
PauseEvents(paused) == IF paused THEN <<>> ELSE <<"timeupdate">>

\* currentTime = t: with no metadata nothing is sought; otherwise seeking,
\* timeupdate and seeked are queued.
SeekEvents(ready) ==
    IF ready = "nothing" THEN <<>> ELSE <<"seeking", "timeupdate", "seeked">>

\* mainVideo.currentTime = t.  With metadata the element seeks within its
\* duration; with none it keeps t as the position to start playback from
\* (the value currentTime reads back until the metadata arrives).
MainSeekPosition(t) ==
    IF mainReady = "nothing" THEN t
    ELSE IF t < 0 THEN 0 ELSE IF t > MainDurTicks THEN MainDurTicks ELSE t

\* Playback of the main video has ended.
MainEnded == mainReady # "nothing" /\ mainTime = MainDurTicks

\* mainVideo.play(): playback that has ended restarts from the beginning.
MainTimeAfterPlay == IF mainPaused /\ MainEnded THEN 0 ELSE mainTime

\* The notifications mainVideo.play() queues.
MainPlayEvents ==
    (IF mainPaused /\ MainEnded /\ mainTime # 0
     THEN SeekEvents(mainReady) ELSE <<>>)
        \o PlayEvents(mainPaused, mainReady)

\* The notifications mainVideo.pause() queues.
MainPauseEvents == IF mainPaused THEN <<>> ELSE <<"timeupdate", "pause">>

\* The main element's queue after it queues evs.
MainEnq(evs) == IF observeMain THEN Enq(mainQueue, evs) ELSE mainQueue

\* ------------------------------------------------------------------ stage
Stage ==
    IF ~hidden["mainVideo"] THEN "Main"
    ELSE IF ~hidden["adVideo"] THEN "Ad"
    ELSE "Thumbnail"

\* The skip control can be activated by the pointer: it is interactive, its
\* overlay is displayed and the play overlay does not cover it.
SkipInteractive ==
    /\ "pointer-events-auto" \in skipButtonClasses
    /\ "pointer-events-none" \notin skipButtonClasses

SkipClickable ==
    /\ SkipInteractive
    /\ ~hidden["adOverlay"]
    /\ hidden["playOverlay"]

\* ------------------------------------------------------------------- Init
\* The player as the constructor leaves it, given the configuration.
\* The errors of the constructor and of init().
NoError == "none"

RequiresWrapperId == "VideoPlayer requires a wrapperId"

WrapperNotFound == "Wrapper not found"

\* A faulty variant of Construction: init() does not look the wrapper up.
ConstructionUnresolved(config) ==
    IF config.wrapperId = NoId THEN RequiresWrapperId ELSE NoError

\* new VideoPlayer(config): what it throws.
Construction(config) ==
    IF config.wrapperId = NoId THEN RequiresWrapperId
    ELSE IF config.wrapperId \notin PageIds THEN WrapperNotFound
    ELSE NoError

\* The state new VideoPlayer(config) leaves.  When it throws, no element
\* has been created (hidden has no domain), and what else the model keeps
\* of the elements is at its initial value, which no listener reads.
\* calls is what is known of the calls of methods that return a value.
ConstructedBefore(inputs, calls) ==
    /\ input \in inputs
    /\ thrown = Construction(input)
    /\ hidden = IF thrown = NoError THEN InitialHidden ELSE <<>>
    /\ skipButtonClasses = InitialSkipButtonClasses
    /\ skipTimerText = ConfigSkipAfter
    /\ adTimerText = <<>>
    /\ adDuration = 0
    /\ adPaused = TRUE
    /\ adTime = 0
    /\ adReady = "nothing"
    /\ adQueue = <<>>
    /\ mainPaused = TRUE
    /\ mainTime = 0
    /\ mainReady = "nothing"
    /\ mainQueue = <<>>
    /\ volume = 1000
    /\ volumeSliderValue = 100
    /\ lastCurrentTime = -1
    /\ controlsOpacity = 0
    /\ hideTimers = <<>>
    /\ handleLive = FALSE
    /\ isUserInteracting = FALSE
    /\ isSettingsOpen = FALSE
    /\ pointer = "outside"
    /\ progressBarWidth = [num |-> 0, den |-> 1]
    /\ progressHandleLeft = [num |-> 0, den |-> 1]
    /\ currentTimeText = <<0, 0>>
    /\ durationText = <<0, 0>>
    /\ destroyed = FALSE
    /\ peer = [controlsHidden |-> TRUE, paused |-> TRUE,
               settingsOpen |-> FALSE]
    /\ lastKey = NoKey
    /\ playbackRate = 100
    /\ currentQuality = "auto"
    /\ lastCall \in calls

\* No such method has been called, and none is about to be.
Constructed(inputs) == ConstructedBefore(inputs, {NoCall})

\* The sequencer's specifications leave the main element's notifications
\* out: its listeners change the main controls only, never the stage, the
\* ad or either element.
Init ==
    /\ Constructed(SequencerInputs)
    /\ observeMain = FALSE

\* -------------------------------------------------------------- sequencer
\* A faulty variant of HiddenAfterStart: the play overlay is left up.
HiddenAfterStartKeepsOverlay(h) ==
    [h EXCEPT !["thumbnailVideo"] = TRUE, !["adVideo"] = FALSE]

\* The class changes of the play button's click handler.
HiddenAfterStart(h) ==
    [h EXCEPT !["thumbnailVideo"] = TRUE, !["adVideo"] = FALSE,
              !["playOverlay"] = TRUE]

\* A faulty variant of PlayButtonClick: the ad is revealed but not started.
PlayButtonClickNoPlay ==
    /\ ~hidden["playOverlay"]
    /\ hidden' = HiddenAfterStart(hidden)
    /\ UNCHANGED <<aside, adEngineVars, adQueue, adUiVars, mainVars>>

\* playButton click
PlayButtonClick ==
    /\ ~hidden["playOverlay"]
    /\ hidden' = HiddenAfterStart(hidden)
    /\ adPaused' = FALSE
    /\ adQueue' = Enq(adQueue, PlayEvents(adPaused, adReady))
    /\ UNCHANGED <<aside, adTime, adReady, adUiVars, mainVars>>

\* A faulty variant of HiddenAfterSkip: the ad video is left on show.
HiddenAfterSkipKeepsAd(h) ==
    [h EXCEPT !["adOverlay"] = TRUE,
              !["mainVideo"] = FALSE, !["mainVideoControls"] = FALSE]

\* The class changes of skipToMainVideo.
HiddenAfterSkip(h) ==
    [h EXCEPT !["adVideo"] = TRUE, !["adOverlay"] = TRUE,
              !["mainVideo"] = FALSE, !["mainVideoControls"] = FALSE]

\* A faulty variant of SkipToMainVideo: the ad is paused but not rewound.
SkipToMainVideoNoRewind(q) ==
    /\ adPaused' = TRUE
    /\ adQueue' = Enq(q, PauseEvents(adPaused))
    /\ hidden' = HiddenAfterSkip(hidden)
    /\ mainPaused' = FALSE
    /\ mainTime' = MainTimeAfterPlay
    /\ mainQueue' = MainEnq(MainPlayEvents)
    /\ UNCHANGED <<aside, adTime, adReady, adUiVars, mainReady, mainUiVars>>

\* skipToMainVideo(), the ad's notifications still queued being q.
SkipToMainVideo(q) ==
    /\ adPaused' = TRUE
    /\ adTime' = IF adReady = "nothing" THEN adTime ELSE 0
    /\ adQueue' = Enq(q, PauseEvents(adPaused) \o SeekEvents(adReady))
    /\ hidden' = HiddenAfterSkip(hidden)
    /\ mainPaused' = FALSE
    /\ mainTime' = MainTimeAfterPlay
    /\ mainQueue' = MainEnq(MainPlayEvents)
    /\ UNCHANGED <<aside, adReady, adUiVars, mainReady, mainUiVars>>

\* skipButton click
SkipButtonClick ==
    /\ SkipClickable
    /\ SkipToMainVideo(adQueue)

\* ------------------------------------------------- ad notification handlers
\* The notification of the ad element dispatched next.
AdDispatch(ev) == adQueue # <<>> /\ Head(adQueue) = ev

\* adVideo loadedmetadata
AdOnLoadedMetadata ==
    /\ AdDispatch("loadedmetadata")
    /\ adQueue' = Tail(adQueue)
    /\ adDuration' = Floor(AdDurTicks)
    /\ UNCHANGED <<aside, hidden, skipButtonClasses, skipTimerText,
                   adTimerText, lastCurrentTime, adEngineVars, mainVars>>

\* A faulty variant of SkipEligible: the comparison is off by one second.
SkipEligibleEarly(currentTime) == currentTime + 1 >= ConfigSkipAfter

\* `currentTime >= this.config.adVideo.skipAfter`
SkipEligible(currentTime) == currentTime >= ConfigSkipAfter

\* The skip control's classes once it is shown, and once it is reset.
ShownSkipButton(cls) ==
    (cls \ {"opacity-0", "pointer-events-none"})
        \cup {"opacity-100", "pointer-events-auto"}

ResetSkipButton(cls) ==
    (cls \cup {"opacity-0", "pointer-events-none"})
        \ {"opacity-100", "pointer-events-auto"}

\* adVideo timeupdate
AdOnTimeupdate ==
    /\ AdDispatch("timeupdate")
    /\ adQueue' = Tail(adQueue)
    /\ LET currentTime == Floor(adTime)
           remainingTime == Floor(AdDurTicks - adTime)
       IN /\ adTimerText' = <<remainingTime>>
          /\ lastCurrentTime' = currentTime
          /\ IF SkipEligible(currentTime)
             THEN /\ hidden' = [hidden EXCEPT !["skipCountdown"] = TRUE]
                  /\ skipButtonClasses' = ShownSkipButton(skipButtonClasses)
                  /\ UNCHANGED skipTimerText
             ELSE /\ skipTimerText' = ConfigSkipAfter - currentTime
                  /\ UNCHANGED <<hidden, skipButtonClasses>>
    /\ UNCHANGED <<aside, adDuration, adEngineVars, mainVars>>

\* adVideo play
AdOnPlay ==
    /\ AdDispatch("play")
    /\ adQueue' = Tail(adQueue)
    /\ hidden' = [hidden EXCEPT !["skipCountdown"] = FALSE]
    /\ skipButtonClasses' = ResetSkipButton(skipButtonClasses)
    /\ UNCHANGED <<aside, skipTimerText, adTimerText, adDuration,
                   lastCurrentTime, adEngineVars, mainVars>>

\* adVideo ended
AdOnEnded ==
    /\ AdDispatch("ended")
    /\ SkipToMainVideo(Tail(adQueue))

\* The ad loading indicator after a notification that shows or hides it.
AdSpinner(show) ==
    /\ adQueue' = Tail(adQueue)
    /\ hidden' = [hidden EXCEPT !["adLoadingSpinner"] = ~show]
    /\ UNCHANGED <<aside, adUiVars, adEngineVars, mainVars>>

\* adVideo waiting
AdOnWaiting == AdDispatch("waiting") /\ AdSpinner(TRUE)

\* adVideo canplay
AdOnCanplay == AdDispatch("canplay") /\ AdSpinner(FALSE)

\* adVideo playing
AdOnPlaying == AdDispatch("playing") /\ AdSpinner(FALSE)

\* adVideo seeking
AdOnSeeking == AdDispatch("seeking") /\ AdSpinner(TRUE)

\* adVideo seeked
AdOnSeeked == AdDispatch("seeked") /\ AdSpinner(FALSE)

\* ------------------------------------------------------ the ad media element
\* The element may queue a further notification.
AdQueueHasRoom == Len(adQueue) < MaxPending

\* The ad's metadata arrives (the source was set and load() called).
AdMetadataArrives ==
    /\ ConfigAdUrl
    /\ adReady = "nothing"
    /\ AdQueueHasRoom
    /\ adReady' = "metadata"
    /\ adQueue' = Enq(adQueue, <<"loadedmetadata">>)
    /\ UNCHANGED <<aside, hidden, adUiVars, adPaused, adTime, mainVars>>

\* Enough of the ad is buffered to play on.
AdDataArrives ==
    /\ adReady = "metadata"
    /\ AdQueueHasRoom
    /\ adReady' = "enough"
    /\ adQueue' = Enq(adQueue, IF adPaused THEN <<"canplay">>
                                ELSE <<"canplay", "playing">>)
    /\ UNCHANGED <<aside, hidden, adUiVars, adPaused, adTime, mainVars>>

\* Playback of the ad runs out of data.
AdStalls ==
    /\ adReady = "enough"
    /\ ~adPaused
    /\ AdQueueHasRoom
    /\ adReady' = "metadata"
    /\ adQueue' = Enq(adQueue, <<"waiting">>)
    /\ UNCHANGED <<aside, hidden, adUiVars, adPaused, adTime, mainVars>>

\* Playback of the ad advances by a tick; at the end the element pauses and
\* queues ended.
AdAdvances ==
    /\ adReady = "enough"
    /\ ~adPaused
    /\ adTime < AdDurTicks
    /\ AdQueueHasRoom
    /\ adTime' = adTime + 1
    /\ adPaused' = (adTime' = AdDurTicks)
    /\ adQueue' = Enq(adQueue, IF adTime' = AdDurTicks
                                THEN <<"timeupdate", "ended">>
                                ELSE <<"timeupdate">>)
    /\ UNCHANGED <<aside, hidden, adUiVars, adReady, mainVars>>

\* The browser's own media controls (media keys, media session) act on the
\* ad while it is the element on show.
AdOnShow == Stage = "Ad" /\ adReady # "nothing" /\ AdQueueHasRoom

AdExternalPause ==
    /\ AdOnShow
    /\ ~adPaused
    /\ adPaused' = TRUE
    /\ adQueue' = Enq(adQueue, PauseEvents(adPaused))
    /\ UNCHANGED <<aside, hidden, adUiVars, adTime, adReady, mainVars>>

AdExternalResume ==
    /\ AdOnShow
    /\ adPaused
    /\ adTime < AdDurTicks
    /\ adPaused' = FALSE
    /\ adQueue' = Enq(adQueue, PlayEvents(adPaused, adReady))
    /\ UNCHANGED <<aside, hidden, adUiVars, adTime, adReady, mainVars>>

AdExternalSeek ==
    /\ AdOnShow
    /\ \E t \in 0..(AdDurTicks - 1) :
          /\ t # adTime
          /\ adTime' = t
    /\ adQueue' = Enq(adQueue, SeekEvents(adReady))
    /\ UNCHANGED <<aside, hidden, adUiVars, adPaused, adReady, mainVars>>

\* ------------------------------------------------- visibility of controls
\* The fields showControls and the pointer listeners read and write.
Ctl ==
    [opacity |-> controlsOpacity, timers |-> hideTimers, live |-> handleLive,
     interacting |-> isUserInteracting, open |-> isSettingsOpen]

SetCtl(c) ==
    /\ controlsOpacity' = c.opacity
    /\ hideTimers' = c.timers
    /\ handleLive' = c.live
    /\ isUserInteracting' = c.interacting
    /\ isSettingsOpen' = c.open

\* clearTimeout(this.hideControlsTimeout): cancels the timeout the field
\* names, if that one is still pending.
ClearTimeout(c) ==
    IF c.live
    THEN [c EXCEPT !.timers = SubSeq(c.timers, 1, Len(c.timers) - 1),
                   !.live = FALSE]
    ELSE c

\* style.opacity = v on bottomControls, centerPlayButton, skipBackwardBtn,
\* skipForwardBtn, videoInfo and settingsContainer.
SetControlsOpacity(c, v) == [c EXCEPT !.opacity = v]

\* this.hideControlsTimeout = setTimeout(..., autoHideControlsDelay)
SetHideTimeout(c) ==
    [c EXCEPT !.timers = Append(c.timers, ConfigAutoHideControlsDelay),
              !.live = TRUE]

\* A faulty variant of ShowControls: the pending timeout is not cancelled.
ShowControlsNoCancel(c) ==
    LET d == SetControlsOpacity(c, 1)
    IN IF ~mainPaused /\ ~d.interacting /\ ~d.open
       THEN SetHideTimeout(d)
       ELSE d

\* showControls()
ShowControls(c) ==
    LET d == ClearTimeout(SetControlsOpacity(c, 1))
    IN IF ~mainPaused /\ ~d.interacting /\ ~d.open
       THEN SetHideTimeout(d)
       ELSE d

\* videoContainer mousemove and mouseenter
ContainerMouseMove(c) ==
    IF ~hidden["mainVideoControls"] THEN ShowControls(c) ELSE c

\* A faulty variant of ContainerMouseLeave: the listener does not look at
\* mainVideo.paused.
ContainerMouseLeaveWhilePaused(c) ==
    IF ~hidden["mainVideoControls"] /\ ~c.open
    THEN SetControlsOpacity(c, 0)
    ELSE c

\* videoContainer mouseleave
ContainerMouseLeave(c) ==
    IF ~mainPaused /\ ~hidden["mainVideoControls"] /\ ~c.open
    THEN SetControlsOpacity(c, 0)
    ELSE c

\* bottomControls mouseenter, settingsContainer mouseenter
ControlMouseEnter(c) == ClearTimeout([c EXCEPT !.interacting = TRUE])

\* bottomControls mouseleave
BottomMouseLeave(c) == ShowControls([c EXCEPT !.interacting = FALSE])

\* settingsContainer mouseleave
SettingsMouseLeave(c) ==
    IF ~c.open THEN ShowControls([c EXCEPT !.interacting = FALSE]) ELSE c

\* The listeners a pointer movement from one place to another runs, in the
\* order the browser dispatches them: mouseleave from the innermost element
\* outwards, mouseenter from the outermost inwards, then mousemove, which
\* bubbles to videoContainer.
Places == {"outside", "video", "bottomControls", "settingsContainer"}

AfterLeave(c, from, to) ==
    LET c1 == IF from = to THEN c
              ELSE IF from = "bottomControls" THEN BottomMouseLeave(c)
              ELSE IF from = "settingsContainer" THEN SettingsMouseLeave(c)
              ELSE c
    IN IF from # "outside" /\ to = "outside"
       THEN ContainerMouseLeave(c1)
       ELSE c1

AfterEnter(c, from, to) ==
    LET c1 == IF from = "outside" /\ to # "outside"
              THEN ContainerMouseMove(c)
              ELSE c
    IN IF from # to /\ to \in {"bottomControls", "settingsContainer"}
       THEN ControlMouseEnter(c1)
       ELSE c1

AfterPointerMove(c, from, to) ==
    LET c1 == AfterEnter(AfterLeave(c, from, to), from, to)
    IN IF to # "outside" THEN ContainerMouseMove(c1) ELSE c1

\* ------------------------------------------------- mirror of the playback
\* updatePlayPauseIcons(isPlaying)
UpdatePlayPauseIcons(h, isPlaying) ==
    [h EXCEPT !["centerPlayIcon"] = isPlaying,
              !["centerPauseIcon"] = ~isPlaying]

\* mainVideo.duration: <<>> is NaN, the duration before the metadata.
MainDuration == IF mainReady = "nothing" THEN <<>> ELSE <<MainDurTicks>>

\* A faulty variant of Percent: the ratio is not scaled to a percentage.
PercentUnscaled(currentTime, duration) ==
    IF duration = <<>> \/ duration = <<0>> THEN <<>>
    ELSE <<[num |-> currentTime, den |-> duration[1]]>>

\* (currentTime / duration) * 100 as the fraction num/den; <<>> when the
\* quotient is NaN or infinite.
Percent(currentTime, duration) ==
    IF duration = <<>> \/ duration = <<0>> THEN <<>>
    ELSE <<[num |-> currentTime * 100, den |-> duration[1]]>>

\* element.style.width = percent + '%' (and style.left): the browser keeps
\* the old declaration when the new value is not a percentage ('NaN%',
\* 'Infinity%').
StylePercent(old, percent) == IF percent = <<>> THEN old ELSE percent[1]

\* formatTime(seconds) of a position in ticks: <<mins, secs>>, with
\* JavaScript's % taking the sign of the dividend.
FormatTime(t) ==
    LET perMin == 60 * TicksPerSec
    IN IF t >= 0
       THEN <<t \div perMin, Floor(t % perMin)>>
       ELSE <<t \div perMin,
              0 - ((((0 - t) % perMin) + TicksPerSec - 1) \div TicksPerSec)>>

\* The characters of a number in a template literal: its decimal digits,
\* after a minus sign when it is negative.
DigitChars == <<"0", "1", "2", "3", "4", "5", "6", "7", "8", "9">>

RECURSIVE Digits(_)
Digits(n) ==
    IF n < 10 THEN <<DigitChars[n + 1]>>
    ELSE Digits(n \div 10) \o <<DigitChars[(n % 10) + 1]>>

NumberText(n) == IF n < 0 THEN <<"-">> \o Digits(0 - n) ELSE Digits(n)

\* A faulty variant of FormatTimeText: the seconds are never padded.
FormatTimeTextUnpadded(seconds) ==
    LET parts == FormatTime(seconds * TicksPerSec)
    IN NumberText(parts[1]) \o <<":">> \o NumberText(parts[2])

\* The string formatTime(seconds) returns for whole seconds:
\* `${mins}:${secs < 10 ? '0' : ''}${secs}`
FormatTimeText(seconds) ==
    LET parts == FormatTime(seconds * TicksPerSec)
    IN NumberText(parts[1]) \o <<":">>
           \o (IF parts[2] < 10 THEN <<"0">> ELSE <<>>)
           \o NumberText(parts[2])

\* The whole, non-negative seconds formatTime is called with.
MaxFormatSeconds == 4503

FormatSeconds == 0..MaxFormatSeconds

\* formatTime is about to be called with seconds.
FormatTimeAhead(seconds) ==
    [method |-> "ahead", arg |-> seconds, result |-> <<>>]

\* formatTime(seconds), with the argument the call was announced with
FormatTimeCall ==
    /\ thrown = NoError
    /\ lastCall.method = "ahead"
    /\ lastCall' = [method |-> "formatTime", arg |-> lastCall.arg,
                    result |-> FormatTimeText(lastCall.arg)]
    /\ UNCHANGED <<input, thrown, observeMain, selection, peer, lastKey,
                   hidden, adVars, mainVars>>

\* ------------------------------------------- main notification handlers
\* The notification of the main element dispatched next.
MainDispatch(ev) == mainQueue # <<>> /\ Head(mainQueue) = ev

\* mainVideo play
MainOnPlay ==
    /\ MainDispatch("play")
    /\ mainQueue' = Tail(mainQueue)
    /\ hidden' = UpdatePlayPauseIcons(hidden, TRUE)
    /\ SetCtl(ShowControls(Ctl))
    /\ UNCHANGED <<aside, adVars, mainPaused, mainTime, mainReady,
                   volumeVars, mirrorVars, pointer, destroyed>>

\* mainVideo pause
MainOnPause ==
    /\ MainDispatch("pause")
    /\ mainQueue' = Tail(mainQueue)
    /\ hidden' = UpdatePlayPauseIcons(hidden, FALSE)
    /\ SetCtl(SetControlsOpacity(ClearTimeout(Ctl), 1))
    /\ UNCHANGED <<aside, adVars, mainPaused, mainTime, mainReady,
                   volumeVars, mirrorVars, pointer, destroyed>>

\* mainVideo timeupdate
MainOnTimeupdate ==
    /\ MainDispatch("timeupdate")
    /\ mainQueue' = Tail(mainQueue)
    /\ LET percent == Percent(mainTime, MainDuration)
       IN /\ progressBarWidth' = StylePercent(progressBarWidth, percent)
          /\ progressHandleLeft' = StylePercent(progressHandleLeft, percent)
    /\ currentTimeText' = FormatTime(mainTime)
    /\ UNCHANGED <<aside, hidden, adVars, mainPaused, mainTime, mainReady,
                   volumeVars, controlVars, durationText, pointer,
                   destroyed>>

\* mainVideo loadedmetadata
MainOnLoadedMetadata ==
    /\ MainDispatch("loadedmetadata")
    /\ mainQueue' = Tail(mainQueue)
    /\ durationText' = FormatTime(MainDurTicks)
    /\ UNCHANGED <<aside, hidden, adVars, mainPaused, mainTime, mainReady,
                   volumeVars, controlVars, progressBarWidth,
                   progressHandleLeft, currentTimeText, pointer, destroyed>>

\* A faulty variant of MainSpinner: the notification is dispatched and the
\* indicator is left as it is.
MainSpinnerUnheard(show) ==
    /\ mainQueue' = Tail(mainQueue)
    /\ UNCHANGED <<aside, hidden, adVars, mainPaused, mainTime, mainReady,
                   mainUiVars>>

\* The main loading indicator after a notification that shows or hides it.
MainSpinner(show) ==
    /\ mainQueue' = Tail(mainQueue)
    /\ hidden' = [hidden EXCEPT !["loadingSpinner"] = ~show]
    /\ UNCHANGED <<aside, adVars, mainPaused, mainTime, mainReady,
                   mainUiVars>>

\* mainVideo waiting
MainOnWaiting == MainDispatch("waiting") /\ MainSpinner(TRUE)

\* mainVideo canplay
MainOnCanplay == MainDispatch("canplay") /\ MainSpinner(FALSE)

\* mainVideo playing
MainOnPlaying == MainDispatch("playing") /\ MainSpinner(FALSE)

\* mainVideo seeking
MainOnSeeking == MainDispatch("seeking") /\ MainSpinner(TRUE)

\* mainVideo seeked
MainOnSeeked == MainDispatch("seeked") /\ MainSpinner(FALSE)

\* ---------------------------------------------------- main media element
\* The element may queue a further notification.
MainQueueHasRoom == Len(mainQueue) < MaxPending

\* The main video's metadata arrives (the source was set and load()
\* called): the position playback is to start from comes into force.
MainMetadataArrives ==
    /\ mainReady = "nothing"
    /\ MainQueueHasRoom
    /\ mainReady' = "metadata"
    /\ mainTime' = IF mainTime < 0 THEN 0
                   ELSE IF mainTime > MainDurTicks THEN MainDurTicks
                   ELSE mainTime
    /\ mainQueue' = MainEnq(<<"loadedmetadata">>
                            \o IF mainTime # 0 THEN SeekEvents("metadata")
                               ELSE <<>>)
    /\ UNCHANGED <<aside, hidden, adVars, mainPaused, mainUiVars>>

\* Enough of the main video is buffered to play on.
MainDataArrives ==
    /\ mainReady = "metadata"
    /\ MainQueueHasRoom
    /\ mainReady' = "enough"
    /\ mainQueue' = MainEnq(IF mainPaused THEN <<"canplay">>
                            ELSE <<"canplay", "playing">>)
    /\ UNCHANGED <<aside, hidden, adVars, mainPaused, mainTime, mainUiVars>>

\* Playback of the main video advances by a tick; at the end the element
\* pauses.
MainAdvances ==
    /\ mainReady = "enough"
    /\ ~mainPaused
    /\ mainTime < MainDurTicks
    /\ MainQueueHasRoom
    /\ mainTime' = mainTime + 1
    /\ mainPaused' = (mainTime' = MainDurTicks)
    /\ mainQueue' = MainEnq(IF mainTime' = MainDurTicks
                            THEN <<"timeupdate", "pause">>
                            ELSE <<"timeupdate">>)
    /\ UNCHANGED <<aside, hidden, adVars, mainReady, mainUiVars>>

\* Playback of the main video is at its end (a seek took it there while it
\* was playing): the element pauses.
MainEnds ==
    /\ ~mainPaused
    /\ MainEnded
    /\ MainQueueHasRoom
    /\ mainPaused' = TRUE
    /\ mainQueue' = MainEnq(<<"timeupdate", "pause">>)
    /\ UNCHANGED <<aside, hidden, adVars, mainTime, mainReady, mainUiVars>>

\* ---------------------------------------------------- the second player
\* The second player's document keydown listener, for ' ' and 'k'.
PeerKeySpace(p) ==
    IF p.controlsHidden THEN p ELSE [p EXCEPT !.paused = ~p.paused]

\* The second player's document click listener; the target is never inside
\* its settingsContainer when the click is made elsewhere.
PeerOutsideClick(p) == [p EXCEPT !.settingsOpen = FALSE]

\* The second player's skipToMainVideo().
PeerSkipToMainVideo ==
    /\ peer.controlsHidden
    /\ peer' = [peer EXCEPT !.controlsHidden = FALSE, !.paused = FALSE]
    /\ UNCHANGED <<setup, lastKey, hidden, adVars, mainVars>>

\* The second player's settingsBtn click.
PeerSettingsBtnClick ==
    /\ ~peer.controlsHidden
    /\ peer' = [peer EXCEPT !.settingsOpen = ~peer.settingsOpen]
    /\ UNCHANGED <<setup, lastKey, hidden, adVars, mainVars>>

\* --------------------------------------------------- commands to the main
\* this.mainVideo.play()
MainPlay ==
    /\ mainPaused' = FALSE
    /\ mainTime' = MainTimeAfterPlay
    /\ mainQueue' = MainEnq(MainPlayEvents)

\* this.mainVideo.pause()
MainPause ==
    /\ mainPaused' = TRUE
    /\ mainTime' = mainTime
    /\ mainQueue' = MainEnq(MainPauseEvents)

\* this.mainVideo.currentTime = t
MainSeek(t) ==
    /\ mainTime' = MainSeekPosition(t)
    /\ mainQueue' = MainEnq(SeekEvents(mainReady))
    /\ mainPaused' = mainPaused

\* togglePlayPause()
TogglePlayPause == IF mainPaused THEN MainPlay ELSE MainPause

\* The menus once the settings are closed.
SettingsClosed(h) ==
    [h EXCEPT !["settingsMenu"] = TRUE, !["speedSubmenu"] = TRUE,
              !["qualitySubmenu"] = TRUE]

\* document click, the target outside settingsContainer
OutsideClick ==
    /\ hidden' = IF isSettingsOpen THEN SettingsClosed(hidden) ELSE hidden
    /\ isSettingsOpen' = FALSE

\* A click on a displayed element reaches its listener while the element's
\* earlier notifications are few.
MainClickable(e) == ~hidden[e] /\ MainQueueHasRoom

\* mainVideo click; the click bubbles to the document
MainVideoClick ==
    /\ MainClickable("mainVideo")
    /\ TogglePlayPause
    /\ OutsideClick
    /\ peer' = PeerOutsideClick(peer)
    /\ UNCHANGED <<setup, lastKey, adVars, mainReady, volumeVars,
                   controlsOpacity,
                   hideTimers, handleLive, isUserInteracting, mirrorVars,
                   pointer, destroyed>>

\* centerPlayButton click
CenterPlayButtonClick ==
    /\ MainClickable("mainVideoControls")
    /\ TogglePlayPause
    /\ UNCHANGED <<aside, hidden, adVars, mainReady, mainUiVars>>

\* Math.max(0, currentTime - skipBackwardSeconds)
SkipBackwardTarget ==
    IF mainTime - ConfigSkipBackward < 0 THEN 0
    ELSE mainTime - ConfigSkipBackward

\* Math.min(duration, currentTime + skipForwardSeconds): NaN while the
\* duration is
SkipForwardTarget ==
    IF MainDuration = <<>> THEN <<>>
    ELSE IF mainTime + ConfigSkipForward > MainDurTicks THEN <<MainDurTicks>>
    ELSE <<mainTime + ConfigSkipForward>>

\* The seek backward and showControls() of skipBackwardBtn and ArrowLeft.
SkipBackward ==
    /\ MainSeek(SkipBackwardTarget)
    /\ SetCtl(ShowControls(Ctl))
    /\ UNCHANGED <<setup, peer, hidden, adVars, mainReady, volumeVars,
                   mirrorVars, pointer, destroyed>>

\* The seek forward and showControls() of skipForwardBtn and ArrowRight:
\* assigning NaN to currentTime throws, which ends the listener.
SkipForward ==
    IF SkipForwardTarget = <<>>
    THEN UNCHANGED <<setup, peer, hidden, adVars, mainVars>>
    ELSE /\ MainSeek(SkipForwardTarget[1])
         /\ SetCtl(ShowControls(Ctl))
         /\ UNCHANGED <<setup, peer, hidden, adVars, mainReady, volumeVars,
                        mirrorVars, pointer, destroyed>>

\* skipBackwardBtn click
SkipBackwardClick ==
    /\ MainClickable("mainVideoControls")
    /\ SkipBackward
    /\ UNCHANGED lastKey

\* skipForwardBtn click
SkipForwardClick ==
    /\ MainClickable("mainVideoControls")
    /\ SkipForward
    /\ UNCHANGED lastKey

\* progressBarContainer click, the pointer at t ticks of the track's
\* length; the click bubbles to the document.  percent * NaN is NaN, whose
\* assignment throws.
ProgressBarClick ==
    /\ MainClickable("mainVideoControls")
    /\ IF MainDuration = <<>>
       THEN UNCHANGED mainEngineVars
       ELSE /\ \E t \in 0..MainDurTicks : MainSeek(t)
            /\ UNCHANGED mainReady
    /\ OutsideClick
    /\ peer' = PeerOutsideClick(peer)
    /\ UNCHANGED <<setup, lastKey, adVars, volumeVars, controlsOpacity,
                   hideTimers,
                   handleLive, isUserInteracting, mirrorVars, pointer,
                   destroyed>>

\* The icons of the volume button.
VolumeIcons(h, muted) ==
    [h EXCEPT !["volumeIcon"] = muted, !["muteIcon"] = ~muted]

\* volumeSlider.value after `volumeSlider.value = mainVideo.volume * 100`
\* with the volume v in thousandths: a range input with min 0, max 100 and
\* the default step of 1 keeps the nearest whole number within its range,
\* the higher of two equally near.
SliderValue(v) ==
    LET nearest == (v + 5) \div 10
    IN IF nearest < 0 THEN 0 ELSE IF nearest > 100 THEN 100 ELSE nearest

\* A faulty variant of ToggleMute: unmuting restores half the volume.
ToggleMuteToHalf ==
    /\ volume' = IF volume > 0 THEN 0 ELSE 500
    /\ volumeSliderValue' = IF volume > 0 THEN 0 ELSE 50

\* The volume button's listener.
ToggleMute ==
    /\ volume' = IF volume > 0 THEN 0 ELSE 1000
    /\ volumeSliderValue' = IF volume > 0 THEN 0 ELSE 100

\* The volume button's click listener, and the document's click listener
\* the click bubbles to.
VolumeBtnActivated ==
    /\ ToggleMute
    /\ hidden' = VolumeIcons(IF isSettingsOpen THEN SettingsClosed(hidden)
                             ELSE hidden, volume > 0)
    /\ isSettingsOpen' = FALSE
    /\ peer' = PeerOutsideClick(peer)
    /\ UNCHANGED <<setup, adVars, mainEngineVars, controlsOpacity,
                   hideTimers, handleLive, isUserInteracting, mirrorVars,
                   pointer, destroyed>>

\* volumeBtn click
VolumeBtnClick ==
    /\ MainClickable("mainVideoControls")
    /\ VolumeBtnActivated
    /\ UNCHANGED lastKey

\* The positions the user leaves the slider at.
SliderInputs == {0, 5, 50, 100}

\* volumeSlider input
VolumeSliderInput ==
    /\ MainClickable("mainVideoControls")
    /\ \E v \in SliderInputs :
          /\ volumeSliderValue' = v
          /\ volume' = v * 10
          /\ hidden' = VolumeIcons(hidden, v = 0)
    /\ UNCHANGED <<aside, adVars, mainEngineVars, controlVars, mirrorVars,
                   pointer, destroyed>>

\* settingsBtn click
SettingsBtnClick ==
    /\ MainClickable("mainVideoControls")
    /\ isSettingsOpen' = ~isSettingsOpen
    /\ hidden' = IF isSettingsOpen'
                 THEN [hidden EXCEPT
                          !["settingsMenu"] = ~hidden["settingsMenu"],
                          !["speedSubmenu"] = TRUE,
                          !["qualitySubmenu"] = TRUE]
                 ELSE [hidden EXCEPT
                          !["settingsMenu"] = ~hidden["settingsMenu"]]
    /\ UNCHANGED <<aside, adVars, mainEngineVars, volumeVars,
                   controlsOpacity, hideTimers, handleLive,
                   isUserInteracting, mirrorVars, pointer, destroyed>>

\* A click on a button of the settings menu reaches its listener while the
\* menu is displayed.
MenuClickable == ~hidden["mainVideoControls"] /\ ~hidden["settingsMenu"]

\* A faulty variant of SpeedMenuBtnClick: the quality submenu is left as it
\* is.
SpeedMenuBtnClickOnly ==
    /\ MenuClickable
    /\ hidden' = [hidden EXCEPT
                     !["speedSubmenu"] = ~hidden["speedSubmenu"]]
    /\ UNCHANGED <<aside, adVars, mainVars>>

\* speedMenuBtn click
SpeedMenuBtnClick ==
    /\ MenuClickable
    /\ hidden' = [hidden EXCEPT
                     !["speedSubmenu"] = ~hidden["speedSubmenu"],
                     !["qualitySubmenu"] = TRUE]
    /\ UNCHANGED <<aside, adVars, mainVars>>

\* qualityMenuBtn click
QualityMenuBtnClick ==
    /\ MenuClickable
    /\ hidden' = [hidden EXCEPT
                     !["qualitySubmenu"] = ~hidden["qualitySubmenu"],
                     !["speedSubmenu"] = TRUE]
    /\ UNCHANGED <<aside, adVars, mainVars>>

\* data-speed of the speed options, in hundredths, and data-quality of the
\* quality options.
SpeedOptions == {50, 75, 100, 125, 150, 200}

QualityOptions == {"auto", "1080p", "720p", "480p", "360p"}

\* A faulty variant of SpeedOptionClick: isSettingsOpen is left as it is.
SpeedOptionClickKeepsFlag ==
    /\ MenuClickable
    /\ ~hidden["speedSubmenu"]
    /\ \E speed \in SpeedOptions : playbackRate' = speed
    /\ hidden' = [hidden EXCEPT !["speedSubmenu"] = TRUE,
                                !["settingsMenu"] = TRUE]
    /\ UNCHANGED <<input, thrown, observeMain, currentQuality, lastCall,
                   peer, lastKey, adVars, mainVars>>

\* click on a speed option
SpeedOptionClick ==
    /\ MenuClickable
    /\ ~hidden["speedSubmenu"]
    /\ \E speed \in SpeedOptions : playbackRate' = speed
    /\ hidden' = [hidden EXCEPT !["speedSubmenu"] = TRUE,
                                !["settingsMenu"] = TRUE]
    /\ isSettingsOpen' = FALSE
    /\ UNCHANGED <<input, thrown, observeMain, currentQuality, lastCall,
                   peer, lastKey, adVars, mainEngineVars, volumeVars,
                   controlsOpacity, hideTimers, handleLive,
                   isUserInteracting, mirrorVars, pointer, destroyed>>

\* click on a quality option
QualityOptionClick ==
    /\ MenuClickable
    /\ ~hidden["qualitySubmenu"]
    /\ \E quality \in QualityOptions : currentQuality' = quality
    /\ hidden' = [hidden EXCEPT !["qualitySubmenu"] = TRUE,
                                !["settingsMenu"] = TRUE]
    /\ isSettingsOpen' = FALSE
    /\ UNCHANGED <<input, thrown, observeMain, playbackRate, lastCall,
                   peer, lastKey, adVars, mainEngineVars, volumeVars,
                   controlsOpacity, hideTimers, handleLive,
                   isUserInteracting, mirrorVars, pointer, destroyed>>

\* A click elsewhere on the page, which only the document's listener
\* hears.
DocumentClick ==
    /\ isSettingsOpen \/ peer.settingsOpen
    /\ OutsideClick
    /\ peer' = PeerOutsideClick(peer)
    /\ UNCHANGED <<setup, lastKey, adVars, mainEngineVars, volumeVars,
                   controlsOpacity, hideTimers, handleLive,
                   isUserInteracting, mirrorVars, pointer, destroyed>>

\* ----------------------------------------------------------------- keys
\* A faulty variant of KeyHeard: the listener does not look at
\* mainVideoControls.
KeyHeardWhileHidden == MainQueueHasRoom

\* document keydown: the listener returns while mainVideoControls is hidden
KeyHeard == ~hidden["mainVideoControls"] /\ MainQueueHasRoom

\* The keys the listener's switch names.
Keys == {" ", "k", "ArrowLeft", "ArrowRight", "ArrowUp", "ArrowDown", "f",
         "m"}

\* A key pressed while mainVideoControls is hidden: the listener returns.
KeyUnheard ==
    /\ hidden["mainVideoControls"]
    /\ \E key \in Keys : lastKey' = key
    /\ UNCHANGED <<setup, peer, hidden, adVars, mainVars>>

\* ' ' and 'k'
KeySpace ==
    /\ KeyHeard
    /\ TogglePlayPause
    /\ peer' = PeerKeySpace(peer)
    /\ \E key \in {" ", "k"} : lastKey' = key
    /\ UNCHANGED <<setup, hidden, adVars, mainReady, mainUiVars>>

\* 'ArrowLeft'
KeyArrowLeft == KeyHeard /\ SkipBackward /\ lastKey' = "ArrowLeft"

\* 'ArrowRight'
KeyArrowRight == KeyHeard /\ SkipForward /\ lastKey' = "ArrowRight"

\* 'ArrowUp'
KeyArrowUp ==
    /\ KeyHeard
    /\ volume' = IF volume + 100 > 1000 THEN 1000 ELSE volume + 100
    /\ volumeSliderValue' = SliderValue(volume')
    /\ lastKey' = "ArrowUp"
    /\ UNCHANGED <<setup, peer, hidden, adVars, mainEngineVars, controlVars,
                   mirrorVars, pointer, destroyed>>

\* 'ArrowDown'
KeyArrowDown ==
    /\ KeyHeard
    /\ volume' = IF volume - 100 < 0 THEN 0 ELSE volume - 100
    /\ volumeSliderValue' = SliderValue(volume')
    /\ lastKey' = "ArrowDown"
    /\ UNCHANGED <<setup, peer, hidden, adVars, mainEngineVars, controlVars,
                   mirrorVars, pointer, destroyed>>

\* 'm': this.volumeBtn.click()
KeyM == KeyHeard /\ VolumeBtnActivated /\ lastKey' = "m"

\* ----------------------------------------------------------- public API
\* play()
Play ==
    /\ MainQueueHasRoom
    /\ MainPlay
    /\ UNCHANGED <<aside, hidden, adVars, mainReady, mainUiVars>>

\* pause()
Pause ==
    /\ MainQueueHasRoom
    /\ MainPause
    /\ UNCHANGED <<aside, hidden, adVars, mainReady, mainUiVars>>

\* The values the host passes to setVolume, in thousandths.
SetVolumeInputs == {0 - 200, 0, 350, 355, 1000, 1500}

\* A faulty variant of ClampVolume: only the lower bound is enforced.
ClampVolumeBelow(v) == IF v < 0 THEN 0 ELSE v

\* Math.max(0, Math.min(1, volume))
ClampVolume(v) == IF v > 1000 THEN 1000 ELSE IF v < 0 THEN 0 ELSE v

\* setVolume(volume)
SetVolume ==
    /\ \E v \in SetVolumeInputs : volume' = ClampVolume(v)
    /\ volumeSliderValue' = SliderValue(volume')
    /\ UNCHANGED <<aside, hidden, adVars, mainEngineVars, controlVars,
                   mirrorVars, pointer, destroyed>>

\* seekTo(seconds)
SeekTo ==
    /\ MainQueueHasRoom
    /\ \E t \in (0 - 1)..(MainDurTicks + 1) : MainSeek(t)
    /\ UNCHANGED <<aside, hidden, adVars, mainReady, mainUiVars>>

\* `x || 0` of a number x (<<>> is NaN): NaN and 0 give 0.
OrZero(x) == IF x = <<>> \/ x = <<0>> THEN <<0>> ELSE x

\* What a method that returns a value leaves: its result, and nothing else
\* changed.
Returned(method, result) ==
    /\ thrown = NoError
    /\ lastCall' = [method |-> method, arg |-> 0, result |-> result]
    /\ UNCHANGED <<input, thrown, observeMain, selection, peer, lastKey,
                   hidden, adVars, mainVars>>

\* getCurrentTime(): `this.mainVideo?.currentTime || 0`, in ticks
GetCurrentTime == Returned("getCurrentTime", OrZero(<<mainTime>>))

\* A faulty variant of GetDuration: the duration is returned as it is read.
GetDurationAsRead == Returned("getDuration", MainDuration)

\* getDuration(): `this.mainVideo?.duration || 0`, in ticks
GetDuration == Returned("getDuration", OrZero(MainDuration))

\* destroy()
Destroy ==
    /\ ~destroyed
    /\ destroyed' = TRUE
    /\ SetCtl(ClearTimeout(Ctl))
    /\ UNCHANGED <<aside, hidden, adVars, mainEngineVars, volumeVars,
                   mirrorVars, pointer>>

\* ------------------------------------------------------ pointer and time
\* The pointer moves; the controls' own areas exist while mainVideoControls
\* is displayed.
PointerMoves ==
    \E to \in Places :
        /\ to \in {"bottomControls", "settingsContainer"} =>
              ~hidden["mainVideoControls"]
        /\ pointer' = to
        /\ SetCtl(AfterPointerMove(Ctl, pointer, to))
        /\ UNCHANGED <<aside, hidden, adVars, mainEngineVars, volumeVars,
                       mirrorVars, destroyed>>

\* A tick passes while a hide timeout is pending and none is due.
TimePasses ==
    /\ hideTimers # <<>>
    /\ \A i \in 1..Len(hideTimers) : hideTimers[i] > 0
    /\ hideTimers' = [i \in 1..Len(hideTimers) |-> hideTimers[i] - 1]
    /\ UNCHANGED <<aside, hidden, adVars, mainEngineVars, volumeVars,
                   controlsOpacity, handleLive, isUserInteracting,
                   isSettingsOpen, mirrorVars, pointer, destroyed>>

\* The oldest hide timeout is due: its callback hides the controls.
HideTimeoutFires ==
    /\ hideTimers # <<>>
    /\ Head(hideTimers) = 0
    /\ hideTimers' = Tail(hideTimers)
    /\ handleLive' = (handleLive /\ Len(hideTimers) > 1)
    /\ controlsOpacity' = 0
    /\ UNCHANGED <<aside, hidden, adVars, mainEngineVars, volumeVars,
                   isUserInteracting, isSettingsOpen, mirrorVars, pointer,
                   destroyed>>

\* ------------------------------------------------------------------- Next
\* Every step but those of the browser's own media controls.
PlaybackNext ==
    \/ PlayButtonClick
    \/ SkipButtonClick
    \/ AdOnLoadedMetadata
    \/ AdOnTimeupdate
    \/ AdOnPlay
    \/ AdOnEnded
    \/ AdOnWaiting
    \/ AdOnCanplay
    \/ AdOnPlaying
    \/ AdOnSeeking
    \/ AdOnSeeked
    \/ AdMetadataArrives
    \/ AdDataArrives
    \/ AdStalls
    \/ AdAdvances
    \/ MainMetadataArrives
    \/ MainDataArrives
    \/ MainAdvances
    \/ MainVideoClick
    \/ CenterPlayButtonClick
    \/ Play
    \/ Pause

ExternalNext ==
    \/ AdExternalPause
    \/ AdExternalResume
    \/ AdExternalSeek

Next == PlaybackNext \/ ExternalNext

Spec == Init /\ [][Next]_vars

\* The player with nothing but playback driving the ad element: no pause,
\* resume or seek of the ad from outside the player.
SpecPlayback == Init /\ [][PlaybackNext]_vars

\* ---------------------------------------------- the main controls' specs
\* The steps that take the player from construction to the Main stage: the
\* start click, the ad playing through and its notifications.
ToMainNext ==
    \/ PlayButtonClick
    \/ AdOnLoadedMetadata
    \/ AdOnTimeupdate
    \/ AdOnPlay
    \/ AdOnEnded
    \/ AdOnWaiting
    \/ AdOnCanplay
    \/ AdOnPlaying
    \/ AdOnSeeking
    \/ AdOnSeeked
    \/ AdMetadataArrives
    \/ AdDataArrives
    \/ AdAdvances

\* The main element and the dispatch of its notifications.
MainElementNext ==
    \/ MainMetadataArrives
    \/ MainDataArrives
    \/ MainAdvances
    \/ MainOnPlay
    \/ MainOnPause
    \/ MainOnTimeupdate
    \/ MainOnLoadedMetadata
    \/ MainOnWaiting
    \/ MainOnCanplay
    \/ MainOnPlaying

\* What follows a seek of the main element.
MainSeekNext ==
    \/ MainOnSeeking
    \/ MainOnSeeked
    \/ MainEnds

\* The configurations with an ad that can be skipped after a second, and
\* the defaults for what inputs does not single out.
MainInputs(steps, delays) ==
    {i \in MountedInputs :
                    /\ i.adUrl
                    /\ i.skipAfter = Supplied(1)
                    /\ i.skipBackwardSeconds \in steps
                    /\ i.skipForwardSeconds \in steps
                    /\ i.autoHideControlsDelay \in delays}

\* The ad is over and its last notifications have been dispatched: the
\* main controls' specifications have the user act from then on.
AdDone == Stage = "Main" /\ adQueue = <<>>

\* The auto-hide of the controls: pointer, settings button, play and pause,
\* seeks by the skip buttons, and the passing of time.
InitControls ==
    /\ Constructed(MainInputs({NotSupplied}, DelayInputs \ {NotSupplied}))
    /\ observeMain = TRUE

ControlsNext ==
    \/ ToMainNext
    \/ MainElementNext
    \/ MainSeekNext
    \/ AdDone /\ MainVideoClick
    \/ AdDone /\ CenterPlayButtonClick
    \/ AdDone /\ SkipBackwardClick
    \/ AdDone /\ SkipForwardClick
    \/ AdDone /\ KeySpace
    \/ AdDone /\ SettingsBtnClick
    \/ AdDone /\ DocumentClick
    \/ AdDone /\ PointerMoves
    \/ TimePasses
    \/ HideTimeoutFires

SpecControls == InitControls /\ [][ControlsNext]_vars

\* The mirror of the playback: the progress bar and the seeks, by the skip
\* buttons, the arrow keys, the progress bar and seekTo.
InitMirror ==
    /\ Constructed(MainInputs(StepInputs, {Supplied(1)}))
    /\ observeMain = TRUE

MirrorNext ==
    \/ ToMainNext
    \/ MainElementNext
    \/ MainSeekNext
    \/ AdDone /\ MainVideoClick
    \/ AdDone /\ SkipBackwardClick
    \/ AdDone /\ SkipForwardClick
    \/ AdDone /\ KeyArrowLeft
    \/ AdDone /\ KeyArrowRight
    \/ AdDone /\ ProgressBarClick
    \/ AdDone /\ SeekTo
    \/ TimePasses
    \/ HideTimeoutFires

SpecMirror == InitMirror /\ [][MirrorNext]_vars

\* The volume: the mute button, the slider, the keys and setVolume.
InitVolume ==
    /\ Constructed(MainInputs({NotSupplied}, {Supplied(1)}))
    /\ observeMain = TRUE

VolumeNext ==
    \/ ToMainNext
    \/ MainElementNext
    \/ AdDone /\ VolumeBtnClick
    \/ AdDone /\ VolumeSliderInput
    \/ AdDone /\ KeyArrowUp
    \/ AdDone /\ KeyArrowDown
    \/ AdDone /\ KeyM
    \/ AdDone /\ SetVolume
    \/ TimePasses
    \/ HideTimeoutFires

SpecVolume == InitVolume /\ [][VolumeNext]_vars

\* The player's teardown: destroy() called at any moment, with the keys,
\* clicks, pointer movements and notifications that may follow it.
InitDestroy ==
    /\ Constructed(MainInputs({NotSupplied}, {Supplied(1)}))
    /\ observeMain = TRUE

DestroyNext ==
    \/ ToMainNext
    \/ MainElementNext
    \/ AdDone /\ KeySpace
    \/ AdDone /\ SettingsBtnClick
    \/ AdDone /\ DocumentClick
    \/ AdDone /\ PointerMoves
    \/ TimePasses
    \/ HideTimeoutFires
    \/ Destroy

SpecDestroy == InitDestroy /\ [][DestroyNext]_vars

\* Two players on one page: this one in full, and of the second what the
\* document's listeners read and write.
InitTwo ==
    /\ Constructed(MainInputs({NotSupplied}, {Supplied(1)}))
    /\ observeMain = TRUE

TwoNext ==
    \/ ToMainNext
    \/ MainElementNext
    \/ AdDone /\ KeySpace
    \/ AdDone /\ MainVideoClick
    \/ AdDone /\ SettingsBtnClick
    \/ DocumentClick
    \/ PeerSkipToMainVideo
    \/ PeerSettingsBtnClick
    \/ TimePasses
    \/ HideTimeoutFires

SpecTwo == InitTwo /\ [][TwoNext]_vars

\* The keyboard: keys pressed in every stage.
InitKeys ==
    /\ Constructed(MainInputs({NotSupplied}, {Supplied(1)}))
    /\ observeMain = TRUE

KeysNext ==
    \/ ToMainNext
    \/ MainElementNext
    \/ MainSeekNext
    \/ KeyUnheard
    \/ KeySpace
    \/ KeyArrowLeft
    \/ KeyArrowRight
    \/ KeyArrowUp
    \/ KeyArrowDown
    \/ KeyM
    \/ TimePasses
    \/ HideTimeoutFires

SpecKeys == InitKeys /\ [][KeysNext]_vars

\* Construction, with every way of naming the mount target.
ConstructionInputs ==
    {i \in Inputs : /\ i.skipAfter \in {NotSupplied, Supplied(1)}
                    /\ i.skipBackwardSeconds = i.skipAfter
                    /\ i.skipForwardSeconds = i.skipAfter
                    /\ i.autoHideControlsDelay = i.skipAfter}

InitConstruction ==
    /\ Constructed(ConstructionInputs)
    /\ observeMain = TRUE

\* The listeners are bound once init() has got past the wrapper's lookup.
Built == thrown = NoError

ConstructionNext ==
    \/ Built /\ ToMainNext
    \/ Built /\ MainElementNext
    \/ Built /\ KeyUnheard
    \/ Built /\ AdDone /\ KeySpace
    \/ TimePasses
    \/ HideTimeoutFires

SpecConstruction == InitConstruction /\ [][ConstructionNext]_vars

\* The settings menu, its submenus and options; the main element's
\* notifications are left out.
InitSettings ==
    /\ Constructed(MainInputs({NotSupplied}, {NotSupplied}))
    /\ observeMain = FALSE

SettingsNext ==
    \/ ToMainNext
    \/ AdDone /\ MainVideoClick
    \/ AdDone /\ VolumeBtnClick
    \/ AdDone /\ SettingsBtnClick
    \/ SpeedMenuBtnClick
    \/ QualityMenuBtnClick
    \/ SpeedOptionClick
    \/ QualityOptionClick
    \/ DocumentClick

SpecSettings == InitSettings /\ [][SettingsNext]_vars

\* The getters, called at any moment of the playback and of its seeks.
InitGetters ==
    /\ Constructed(MainInputs({NotSupplied}, {Supplied(1)}))
    /\ observeMain = TRUE

GettersNext ==
    \/ ToMainNext
    \/ MainElementNext
    \/ MainSeekNext
    \/ AdDone /\ MainVideoClick
    \/ SeekTo
    \/ GetCurrentTime
    \/ GetDuration
    \/ TimePasses
    \/ HideTimeoutFires

SpecGetters == InitGetters /\ [][GettersNext]_vars

\* formatTime, called with whole seconds.
InitFormat ==
    /\ ConstructedBefore(MainInputs({NotSupplied}, {NotSupplied}),
                         {FormatTimeAhead(s) : s \in FormatSeconds})
    /\ observeMain = FALSE

FormatNext == FormatTimeCall

SpecFormat == InitFormat /\ [][FormatNext]_vars

\* ================================================================= claims
MediaElements == {"thumbnailVideo", "adVideo", "mainVideo"}

VisibleMedia == {e \in MediaElements : ~hidden[e]}

\* The skip control is visible and interactive.
SkipShown ==
    /\ SkipInteractive
    /\ "opacity-100" \in skipButtonClasses
    /\ "opacity-0" \notin skipButtonClasses

\* The skip control is hidden and inert.
SkipInert ==
    /\ ~SkipInteractive
    /\ "opacity-0" \in skipButtonClasses
    /\ "opacity-100" \notin skipButtonClasses

\* A step that enters the Main stage.
EntersMain == Stage # "Main" /\ Stage' = "Main"

C4_SkipFollowsThreshold ==
    [][(AdOnTimeupdate /\ Stage = "Ad" /\ input.skipAfter.present) =>
          IF Floor(adTime) >= input.skipAfter.val
          THEN SkipShown'
          ELSE SkipInert']_vars

\* C5 as stated: once the skip control is visible and interactive in the Ad
\* stage it stays so until the Ad stage is left.
C5_SkipLatch ==
    [][(Stage = "Ad" /\ SkipShown /\ Stage' = "Ad") => SkipShown']_vars

\* C6: the start click, with an ad source configured, hides the thumbnail
\* and the play overlay, reveals the ad video and starts the ad; the main
\* video stays hidden and is not started.
C6_StartShowsAd ==
    [][(PlayButtonClick /\ ConfigAdUrl) =>
          /\ hidden'["thumbnailVideo"] /\ hidden'["playOverlay"]
          /\ ~hidden'["adVideo"]
          /\ ~adPaused'
          /\ hidden'["mainVideo"] /\ hidden'["mainVideoControls"]
          /\ mainPaused' = mainPaused
          /\ mainTime' = mainTime]_vars

\* The start click was made with an ad source and the ad has played on.
C6_Witness ==
    /\ ConfigAdUrl
    /\ Stage = "Ad"
    /\ ~adPaused
    /\ adTime > 0
    /\ mainPaused
    /\ mainTime = 0

\* C7 as stated: with no ad source, the start click reveals and starts the
\* main content and shows no ad element.
C7_NoAdStartsMain ==
    [][(PlayButtonClick /\ ~ConfigAdUrl) =>
          /\ ~hidden'["mainVideo"]
          /\ ~mainPaused'
          /\ hidden'["adVideo"]]_vars

\* C8: the ad's ended notification, or a skip activation, leaves the ad
\* paused at position 0, the ad video and the ad overlay hidden, the main
\* video and its controls revealed, and the main video playing.
C8_AdvanceToMain ==
    [][(AdOnEnded \/ SkipButtonClick) =>
          /\ adPaused' /\ adTime' = 0
          /\ hidden'["adVideo"] /\ hidden'["adOverlay"]
          /\ ~hidden'["mainVideo"] /\ ~hidden'["mainVideoControls"]
          /\ ~mainPaused']_vars

\* The ad ended by itself (nothing was paused, the rewind's notifications
\* are queued) and the main video is playing.
C8_Witness ==
    /\ Stage = "Main"
    /\ adQueue = <<"seeking", "timeupdate", "seeked">>
    /\ lastCurrentTime = Floor(AdDurTicks)
    /\ adTime = 0
    /\ ~mainPaused

\* C9 as stated: a second invocation of skipToMainVideo changes neither the
\* stage, the visibility, the main play/pause state nor the main position.
C9_AdvanceIdempotent ==
    [][(Stage = "Main" /\ AdOnEnded) =>
          /\ hidden' = hidden
          /\ mainPaused' = mainPaused
          /\ mainTime' = mainTime]_vars

\* C10 as stated: once the stage is Main, an ad notification changes neither
\* the ad timer, the skip countdown, the skip control nor the ad loading
\* indicator.
C10_StaleAdIgnored ==
    [][(/\ Stage = "Main"
        /\ \/ AdOnTimeupdate
           \/ AdOnPlay
           \/ AdOnSeeking
           \/ AdOnSeeked
           \/ AdOnWaiting) =>
          UNCHANGED <<adTimerText, skipTimerText, skipButtonClasses,
                      hidden>>]_vars

\* The percentage num/den is a valid one, between 0 and 100.
ValidPercent(p) == p.den > 0 /\ p.num >= 0 /\ p.num <= 100 * p.den

\* The percentage num/den is clamp(position / duration, 0, 1) x 100.
ShowsPosition(p, position, duration) ==
    LET clamped == IF position < 0 THEN 0
                   ELSE IF position > duration THEN duration
                   ELSE position
    IN p.den > 0 /\ p.num * duration = clamped * 100 * p.den

AsGiven(x, d) == IF x.present THEN x.val ELSE d

\* clamp(t, 0, duration) of the main video
ClampToMain(t) ==
    IF t < 0 THEN 0 ELSE IF t > MainDurTicks THEN MainDurTicks ELSE t

\* C12 as stated: with the duration known, a seek backward (button or
\* ArrowLeft) sets the main position to clamp(current - configured step, 0,
\* duration) and a seek forward (button or ArrowRight) to
\* clamp(current + configured step, 0, duration).
C12_SeekByOffset ==
    [][/\ ((SkipBackwardClick \/ KeyArrowLeft) /\ mainReady # "nothing") =>
             mainTime' =
                 ClampToMain(mainTime
                     - AsGiven(input.skipBackwardSeconds,
                               DefaultSkipBackwardSeconds * TicksPerSec))
       /\ ((SkipForwardClick \/ KeyArrowRight) /\ mainReady # "nothing") =>
             mainTime' =
                 ClampToMain(mainTime
                     + AsGiven(input.skipForwardSeconds,
                               DefaultSkipForwardSeconds * TicksPerSec))]_vars

\* C13: the main volume stays within [0, 1] (0..1000 thousandths) whatever
\* volume operations are made; setVolume(v) stores min(1, max(0, v)), so
\* setVolume(1.5) stores 1.0 and setVolume(-0.2) stores 0.0.
C13_VolumeInRange ==
    /\ [](volume \in 0..1000)
    /\ [][SetVolume =>
             \E v \in SetVolumeInputs :
                 volume' =
                     IF v < 0 THEN 0 ELSE IF v > 1000 THEN 1000 ELSE v]_vars
    /\ [](ClampVolume(1500) = 1000 /\ ClampVolume(0 - 200) = 0)

\* The volume was muted by the button (the icon still says so) and then
\* raised to the top without the button or the slider.
C13_Witness ==
    /\ volume = 1000
    /\ hidden["volumeIcon"]
    /\ ~hidden["muteIcon"]

\* C14 as stated: seekTo leaves the main position within [0, duration] (a
\* value beyond the duration leaves it at the duration, a negative one at
\* 0).
C14_SeekToClamped ==
    [][SeekTo => mainTime' \in 0..MainDurTicks]_vars

\* The pointer is over the control surface.
PointerOverControls == pointer \in {"bottomControls", "settingsContainer"}

\* C15 as stated: a hide timer is pending only if the main video is not
\* paused, userInteracting is false and settingsOpen is false; and so the
\* timer never fires while the video is paused, while the settings menu is
\* open or while the pointer is over the control surface.
C15_TimerOnlyWhenIdle ==
    /\ [](hideTimers # <<>> =>
            ~mainPaused /\ ~isUserInteracting /\ ~isSettingsOpen)
    /\ [][HideTimeoutFires =>
            ~mainPaused /\ ~isSettingsOpen /\ ~PointerOverControls]_vars

\* C16 as stated, in its finite form: in the Main stage, with the main
\* video playing, the settings menu closed, the pointer not over the control
\* surface, the controls visible and no notification waiting, a hide timer
\* is pending (so that, with no further input, the controls get hidden).
C16_HidesWhenIdle ==
    (/\ Stage = "Main"
     /\ ~mainPaused
     /\ ~isSettingsOpen
     /\ ~PointerOverControls
     /\ controlsOpacity = 1
     /\ mainQueue = <<>>) => hideTimers # <<>>

\* The auto-hide delay as configured, in ticks.
GivenAutoHideDelay ==
    AsGiven(input.autoHideControlsDelay,
            (DefaultAutoHideControlsDelay * TicksPerSec) \div 1000)

\* C17 as stated: the play notification of the main video (nothing
\* suppressing the auto-hide) leaves one hide timer counting the configured
\* delay; the timer's expiry hides the controls; and a pointer movement over
\* the video, while it plays, shows the controls and leaves one timer
\* counting the full configured delay, whatever timer was pending.
C17_AutoHideAfterDelay ==
    [][/\ (MainOnPlay /\ ~mainPaused /\ ~isUserInteracting
                      /\ ~isSettingsOpen) =>
             hideTimers' = <<GivenAutoHideDelay>>
       /\ HideTimeoutFires => controlsOpacity' = 0
       /\ (/\ PointerMoves
           /\ Stage = "Main"
           /\ ~PointerOverControls
           /\ pointer' = "video"
           /\ ~mainPaused /\ ~isUserInteracting /\ ~isSettingsOpen) =>
             /\ controlsOpacity' = 1
             /\ hideTimers' = <<GivenAutoHideDelay>>]_vars

\* C18: at most one hide timer is pending at any time.
C18_OneHideTimer == Len(hideTimers) <= 1

\* The pointer has moved over the playing video after the play
\* notification armed a timer: one timer is pending, with the full delay.
C18_Witness ==
    /\ Stage = "Main"
    /\ ~mainPaused
    /\ pointer = "video"
    /\ mainQueue = <<>>
    /\ hideTimers = <<ConfigAutoHideControlsDelay>>

\* C19 as stated: after destroy() no hide timer is pending, and no key
\* press, document click, pointer movement or notification of the main
\* video changes the player's state or the main video's.
C19_DestroyDetaches ==
    /\ [](destroyed => hideTimers = <<>>)
    /\ [][(/\ destroyed
           /\ \/ KeySpace
              \/ DocumentClick
              \/ PointerMoves
              \/ MainOnPlay
              \/ MainOnPause
              \/ MainOnTimeupdate) =>
             UNCHANGED <<hidden, controlVars, mirrorVars, volumeVars,
                         mainPaused, mainTime>>]_vars

\* What C20 calls the state of this player.
InstanceState == <<mainPaused, mainTime, volume, isSettingsOpen>>

\* C20: with two players on one page, a key press or a click on the page
\* changes the state (play/pause, position, volume, settings menu) of at
\* most one of them, a click on this player's own elements leaves the second
\* player unchanged, and a click on the second player's own elements leaves
\* this one unchanged.
C20_InstancesIndependent ==
    [][/\ (KeySpace \/ DocumentClick) =>
              (UNCHANGED peer \/ UNCHANGED InstanceState)
       /\ (MainVideoClick \/ SettingsBtnClick) => UNCHANGED peer
       /\ (PeerSkipToMainVideo \/ PeerSettingsBtnClick) =>
              UNCHANGED InstanceState]_vars

\* A key is pressed.
KeyPressed ==
    \/ KeyUnheard
    \/ KeySpace
    \/ KeyArrowLeft
    \/ KeyArrowRight
    \/ KeyArrowUp
    \/ KeyArrowDown
    \/ KeyM

\* C21: while the stage is Thumbnail or Ad no key press changes the
\* play/pause state, the position or the volume of a media element, or the
\* visibility of the controls.
C21_KeysOnlyInMain ==
    [][(KeyPressed /\ Stage # "Main") =>
          UNCHANGED <<adPaused, adTime, mainPaused, mainTime, volume,
                      volumeSliderValue, controlsOpacity, hidden>>]_vars

\* Space was pressed before the main stage, and the ad plays on.
C21_Witness ==
    /\ Stage = "Ad"
    /\ lastKey = " "
    /\ ~adPaused
    /\ adTime > 0
    /\ mainPaused

C23_ContainerIdAccepted ==
    (input.containerId \in PageIds /\ input.wrapperId = NoId) =>
        thrown = NoError /\ DOMAIN hidden = Elements

\* C24: the mute toggle (volume button or M key) sets the volume to 0 when
\* it is above 0 and to 1.0 (1000 thousandths) when it is 0, whatever it was
\* before the muting.
C24_MuteToggle ==
    [][(VolumeBtnClick \/ KeyM) =>
          volume' = IF volume > 0 THEN 0 ELSE 1000]_vars

\* The M key has just muted the main video.
C24_Witness ==
    /\ lastKey = "m"
    /\ volume = 0
    /\ volumeSliderValue = 0
    /\ ~hidden["muteIcon"]

\* C25 as stated: in the Main stage the muted icon is shown exactly when
\* the main volume is 0 and the unmuted icon exactly when it is above 0.
C25_IconShowsMute ==
    Stage = "Main" =>
        /\ ~hidden["muteIcon"] <=> volume = 0
        /\ ~hidden["volumeIcon"] <=> volume > 0

\* C26 as stated: the pause notification of the main video shows the
\* controls, cancels the pending hide timer and shows the play glyph; and in
\* the Main stage the controls are never hidden while the main video is
\* paused.
C26_PausedShowsControls ==
    /\ [][MainOnPause =>
             /\ controlsOpacity' = 1
             /\ hideTimers' = <<>>
             /\ ~hidden'["centerPlayIcon"]
             /\ hidden'["centerPauseIcon"]]_vars
    /\ []((Stage = "Main" /\ mainPaused) => controlsOpacity = 1)

\* C27 as stated: at most one media element is playing at any time, and
\* the main video is never playing while the stage is Thumbnail or Ad,
\* whatever the host calls.
C27_OnlyActiveStagePlays ==
    /\ ~(~adPaused /\ ~mainPaused)
    /\ Stage # "Main" => mainPaused

\* The pointer leaves the player in the Main stage.
PointerLeavesPlayer ==
    /\ PointerMoves
    /\ pointer # "outside"
    /\ pointer' = "outside"
    /\ Stage = "Main"

C29_SettingsOpenShowsControls ==
    /\ [][(SettingsBtnClick /\ isSettingsOpen') =>
             controlsOpacity' = 1 /\ hideTimers' = <<>>]_vars
    /\ [](isSettingsOpen => controlsOpacity = 1)

\* C30 as stated: isUserInteracting is true exactly while the pointer is
\* over the bottom controls or the settings container.
C30_InteractingFollowsPointer == isUserInteracting <=> PointerOverControls

\* The submenu is displayed: neither it nor the menu that holds it is
\* hidden.
SubmenuShown(e) == ~hidden["settingsMenu"] /\ ~hidden[e]

\* C31: at most one of the speed and quality submenus is open at any time:
\* neither click on a submenu's button leaves the other open, and opening
\* the settings menu leaves both closed.
C31_OneSubmenu ==
    /\ [](hidden["speedSubmenu"] \/ hidden["qualitySubmenu"])
    /\ [][SpeedMenuBtnClick => hidden'["qualitySubmenu"]]_vars
    /\ [][QualityMenuBtnClick => hidden'["speedSubmenu"]]_vars
    /\ [][(SettingsBtnClick /\ isSettingsOpen') =>
             hidden'["speedSubmenu"] /\ hidden'["qualitySubmenu"]]_vars

\* The quality submenu is open, after the speed submenu has been used.
C31_Witness ==
    /\ SubmenuShown("qualitySubmenu")
    /\ hidden["speedSubmenu"]
    /\ playbackRate # 100

\* C32: isSettingsOpen is true exactly when the settings menu is displayed.
C32_FlagIsMenu == isSettingsOpen <=> ~hidden["settingsMenu"]

\* The menu has been closed by the choice of a quality.
C32_Witness ==
    /\ currentQuality # "auto"
    /\ ~isSettingsOpen
    /\ hidden["settingsMenu"]
    /\ hidden["qualitySubmenu"]

\* The main element's buffering notifications, by what the listeners do
\* with the loading indicator.
BufferingStarts == MainOnWaiting \/ MainOnSeeking

BufferingEnds == MainOnCanplay \/ MainOnPlaying \/ MainOnSeeked

\* C33: the main loading indicator reflects the most recent buffering
\* notification: it is shown after waiting or seeking, hidden after
\* canplay, playing or seeked, hidden before the first of them, and nothing
\* else changes it.
C33_SpinnerFollowsBuffering ==
    /\ hidden["loadingSpinner"]
    /\ [][BufferingStarts => ~hidden'["loadingSpinner"]]_vars
    /\ [][BufferingEnds => hidden'["loadingSpinner"]]_vars
    /\ [][hidden'["loadingSpinner"] # hidden["loadingSpinner"] =>
             BufferingStarts \/ BufferingEnds]_vars

\* The indicator is shown for a seek of the main video that has not
\* completed yet: seeked is still to be dispatched.
C33_Witness ==
    /\ Stage = "Main"
    /\ ~hidden["loadingSpinner"]
    /\ mainReady = "enough"
    /\ mainQueue # <<>>
    /\ mainQueue[Len(mainQueue)] = "seeked"

\* The skipAfter the caller passed, the documented default when none was.
GivenSkipAfter == AsGiven(input.skipAfter, DefaultSkipAfter)

\* C34 as stated: in the Ad stage, after every ad position update with
\* floor(position) < skipAfter the countdown reads skipAfter -
\* floor(position), which is at least 1, and after one with floor(position)
\* >= skipAfter the countdown display is hidden.
C34_CountdownDescends ==
    [][(AdOnTimeupdate /\ Stage = "Ad") =>
          IF Floor(adTime) < GivenSkipAfter
          THEN /\ skipTimerText' = GivenSkipAfter - Floor(adTime)
               /\ skipTimerText' >= 1
          ELSE hidden'["skipCountdown"]]_vars

\* The number a string of decimal digits denotes.
DigitValues ==
    [c \in {DigitChars[i] : i \in 1..10} |->
        CHOOSE d \in 0..9 : DigitChars[d + 1] = c]

RECURSIVE DigitsValue(_)
DigitsValue(cs) ==
    IF cs = <<>> THEN 0
    ELSE 10 * DigitsValue(SubSeq(cs, 1, Len(cs) - 1))
            + DigitValues[cs[Len(cs)]]

IsDigits(cs) == \A i \in 1..Len(cs) : cs[i] \in DOMAIN DigitValues

\* text reads M:SS: the digits of M, a colon, and exactly two digits, SS.
ReadsAs(text, M, SS) ==
    LET n == Len(text)
    IN /\ n >= 4
       /\ text[n - 2] = ":"
       /\ IsDigits(SubSeq(text, 1, n - 3))
       /\ IsDigits(SubSeq(text, n - 1, n))
       /\ DigitsValue(SubSeq(text, 1, n - 3)) = M
       /\ DigitsValue(SubSeq(text, n - 1, n)) = SS

\* C35: for every non-negative whole number of seconds s, formatTime(s)
\* reads M:SS with M = s div 60, however large, and SS = s mod 60 padded
\* with a zero to exactly two digits.
C35_FormatTime ==
    lastCall.method = "formatTime" =>
        ReadsAs(lastCall.result, lastCall.arg \div 60, lastCall.arg % 60)

\* formatTime(4503) has returned 75:03.
C35_Witness ==
    /\ lastCall.method = "formatTime"
    /\ lastCall.arg = 4503
    /\ lastCall.result = <<"7", "5", ":", "0", "3">>

\* The ad overlay, which holds the Ad badge, the remaining-time display,
\* the skip countdown and the skip control, is displayed.
AdOverlayShown == ~hidden["adOverlay"]

\* C36 as stated: the ad overlay's elements are displayed only while the
\* stage is Ad: not in Thumbnail before the start click, and not once Main
\* is entered.
C36_AdOverlayOnlyInAd == AdOverlayShown => Stage = "Ad"

\* C37 as stated: the numeric configuration values are used exactly as
\* given, 0 included: the player's skipAfter, seek steps and auto-hide
\* delay are the caller's, and the defaults (5, 10, 10, 3000) stand only
\* for what was not supplied.
C37_NumbersAsGiven ==
    /\ ConfigSkipAfter = GivenSkipAfter
    /\ ConfigSkipBackward =
           AsGiven(input.skipBackwardSeconds,
                   DefaultSkipBackwardSeconds * TicksPerSec)
    /\ ConfigSkipForward =
           AsGiven(input.skipForwardSeconds,
                   DefaultSkipForwardSeconds * TicksPerSec)
    /\ ConfigAutoHideControlsDelay = GivenAutoHideDelay

\* C38 as stated: the volume slider mirrors the main volume in every
\* reachable state: the slider's value is the volume times 100.
C38_SliderMirrorsVolume == volumeSliderValue * 10 = volume

\* What a getter may not change: everything but the record of the call.
PlayerState ==
    <<input, thrown, observeMain, selection, peer, lastKey, hidden, adVars,
      mainVars>>

\* The value is a number: not NaN, not undefined.
IsNumber(x) == Len(x) = 1 /\ x[1] \in Int

\* C39: getCurrentTime() and getDuration() always return a number and
\* change nothing of the player: getDuration() returns 0 while the main
\* duration is not known and the duration afterwards, getCurrentTime()
\* the main element's current position.
C39_GettersReturnNumbers ==
    /\ [][GetCurrentTime =>
             /\ IsNumber(lastCall'.result)
             /\ lastCall'.result[1] = mainTime
             /\ UNCHANGED PlayerState]_vars
    /\ [][GetDuration =>
             /\ IsNumber(lastCall'.result)
             /\ lastCall'.result[1] =
                    IF mainReady = "nothing" THEN 0 ELSE MainDurTicks
             /\ UNCHANGED PlayerState]_vars

\* getDuration() has returned 0 during the ad, the main video's metadata
\* not yet loaded.
C39_Witness ==
    /\ Stage = "Ad"
    /\ mainReady = "nothing"
    /\ lastCall.method = "getDuration"
    /\ lastCall.result = <<0>>

====
